---- MODULE Spec2Model ----
(***************************************************************************)
(* A model of script_scanner.py: the image-to-JSON pipeline of the script  *)
(* scanner bot.  Text is a sequence of one-character strings, the Name      *)
(* Table (character_mapping, a dict) is a sequence of <<key, value>> pairs  *)
(* in insertion order with unique keys, and an exception is a record       *)
(* [type, reason, name].                                                    *)
(***************************************************************************)
EXTENDS Integers, Sequences, FiniteSets, TLC

VARIABLES
    pc,                 \* position of the handler / function being modelled
    character_mapping,  \* the global dict of line 15
    message,            \* the Discord message of the current request
    image,              \* the decoded image: "None" or [w, h]
    width,              \* width of the image normalized to A4 height
    crop,               \* the slice taken by crop_to_character_names
    names,              \* the recognized, non-blank lines (character_names, l.123)
    character_names,    \* the list returned by the resolver
    scanned_title_raw,  \* the text recognized in the title band
    script_name,
    author,
    json,
    replies,            \* the replies sent to the user for the current request
    error,              \* the exception raised, if any
    calls,              \* how often each fallible step ran in the current request
    pixel,              \* a BGR pixel handed to remove_color
    gray_pixel          \* the pixel remove_color produces

vars == <<pc, character_mapping, message, image, width, crop, names,
          character_names, scanned_title_raw, script_name, author, json,
          replies, error, calls, pixel, gray_pixel>>

----------------------------------------------------------------------------
(* Bounds of the model. *)

\* longest raw name handed to the resolver
MaxNameLen == 2
\* longest list of raw names handed to the resolver
MaxNames == 2

----------------------------------------------------------------------------
(* Text helpers: Python's str methods on sequences of characters. *)

\* all texts over an alphabet up to a length
Texts(alphabet, n) == UNION {[1..k -> alphabet] : k \in 0..n}

\* the characters str.strip() removes
Whitespace == {" ", "\n", "\t", "\r"}

RECURSIVE LStrip(_)
LStrip(s) ==
    IF s = <<>> THEN s
    ELSE IF Head(s) \in Whitespace THEN LStrip(Tail(s)) ELSE s

RECURSIVE RStrip(_)
RStrip(s) ==
    IF s = <<>> THEN s
    ELSE IF s[Len(s)] \in Whitespace THEN RStrip(SubSeq(s, 1, Len(s) - 1)) ELSE s

\* str.strip()
Strip(s) == RStrip(LStrip(s))

\* str.split(sep) for a one-character separator: never the empty list
RECURSIVE SplitChar(_, _, _)
SplitChar(s, sep, cur) ==
    IF s = <<>> THEN <<cur>>
    ELSE IF Head(s) = sep THEN <<cur>> \o SplitChar(Tail(s), sep, <<>>)
    ELSE SplitChar(Tail(s), sep, Append(cur, Head(s)))

Split(s, sep) == SplitChar(s, sep, <<>>)

\* str.replace(ch, "")
Remove(s, ch) == SelectSeq(s, LAMBDA c : c # ch)

Min2(a, b) == IF a <= b THEN a ELSE b

----------------------------------------------------------------------------
(* Levenshtein.distance: insertions, deletions and substitutions at cost 1, *)
(* computed row by row.                                                     *)

RECURSIVE LevRow(_, _, _, _)
LevRow(prev, c, t, row) ==
    IF Len(row) = Len(t) + 1 THEN row
    ELSE LET j == Len(row)
             cost == IF t[j] = c THEN 0 ELSE 1
             val == Min2(Min2(prev[j + 1] + 1, row[j] + 1), prev[j] + cost)
         IN LevRow(prev, c, t, Append(row, val))

RECURSIVE LevRows(_, _, _)
LevRows(s, t, prev) ==
    IF s = <<>> THEN prev
    ELSE LevRows(Tail(s), t, LevRow(prev, Head(s), t, <<prev[1] + 1>>))

Levenshtein(s, t) == LevRows(s, t, [j \in 1..(Len(t) + 1) |-> j - 1])[Len(t) + 1]

----------------------------------------------------------------------------
(* Exceptions. *)

NoError == [type |-> "", reason |-> "", name |-> <<>>]
Raised(type, reason, name) == [type |-> type, reason |-> reason, name |-> name]

----------------------------------------------------------------------------
(* map_scanned_character_names_to_json_equivalent *)

\* name in character_mapping
HasKey(mapping, name) == \E i \in 1..Len(mapping) : mapping[i][1] = name

\* character_mapping.get( name ), for a name that is a key
Get(mapping, name) ==
    mapping[CHOOSE i \in 1..Len(mapping) : mapping[i][1] = name][2]

\* min( ..., key = lambda x: x[1] ) replaces its candidate only by a strictly
\* smaller one, so the first minimal element wins (the faulty variant lets the
\* last one win)
ReplacesCandidateLast(distance, best) == distance <= best
ReplacesCandidate(distance, best) == distance < best

\* min() over ( key, dist( key ) ) for the keys in iteration order; the
\* mapping is not empty
RECURSIVE MinFrom(_, _, _, _)
MinFrom(mapping, name, i, best) ==
    IF i > Len(mapping) THEN best
    ELSE LET d == Levenshtein(name, mapping[i][1])
         IN MinFrom(mapping, name, i + 1,
                    IF ReplacesCandidate(d, best.distance)
                    THEN [key |-> mapping[i][1], distance |-> d]
                    ELSE best)

ClosestMatch(mapping, name) ==
    MinFrom(mapping, name, 2,
            [key |-> mapping[1][1], distance |-> Levenshtein(name, mapping[1][1])])

\* the largest distance accepted as a misreading (line 88)
MaxDistance == 3
AcceptsDistance(distance) == distance <= MaxDistance

\* json_characters.append( ... ) (the faulty variant inserts at the front)
AppendCharacterFront(json_characters, c) == <<c>> \o json_characters
AppendCharacter(json_characters, c) == Append(json_characters, c)

\* the loop of lines 77-93 and the return of line 95.  min() of an empty
\* sequence raises ValueError.
RECURSIVE MapLoop(_, _, _)
MapLoop(mapping, rest, json_characters) ==
    IF rest = <<>> THEN [error |-> NoError, value |-> json_characters]
    ELSE LET name == Head(rest) IN
         IF HasKey(mapping, name)
         THEN MapLoop(mapping, Tail(rest),
                      AppendCharacter(json_characters, Get(mapping, name)))
         ELSE IF mapping = <<>>
         THEN [error |-> Raised("ValueError", "min() arg is an empty sequence", <<>>),
               value |-> <<>>]
         ELSE LET m == ClosestMatch(mapping, name) IN
              IF AcceptsDistance(m.distance)
              THEN MapLoop(mapping, Tail(rest),
                           AppendCharacter(json_characters, Get(mapping, m.key)))
              ELSE [error |-> Raised("RuntimeError", "no match", name),
                    value |-> <<>>]

MapScannedCharacterNames(mapping, scanned) == MapLoop(mapping, scanned, <<>>)

----------------------------------------------------------------------------
(* load_character_mapping: the file is read line by line ( each line keeps  *)
(* its line break ), stripped and split on tabs; a line of two columns sets *)
(* character_mapping[ key ] = value, any other line is skipped.             *)

\* character_mapping[ key ] = value: a new key goes last, a known key keeps
\* its place
SetItem(mapping, key, value) ==
    IF HasKey(mapping, key)
    THEN [i \in 1..Len(mapping) |->
             IF mapping[i][1] = key THEN <<key, value>> ELSE mapping[i]]
    ELSE Append(mapping, <<key, value>>)

\* the test of line 25
TwoColumns(columns) == Len(columns) = 2

RECURSIVE LoadLines(_, _)
LoadLines(lines, mapping) ==
    IF lines = <<>> THEN mapping
    ELSE LET columns == Split(Strip(Head(lines)), "\t") IN
         IF TwoColumns(columns)
         THEN LoadLines(Tail(lines),
                        SetItem(mapping, columns[1], columns[2]))
         ELSE LoadLines(Tail(lines), mapping)

LoadCharacterMapping(lines) == LoadLines(lines, <<>>)

\* characters.tsv as the deployment may hold it: empty, well-formed,
\* with malformed lines, with a repeated key, with long names only
CharacterFiles == {
    <<>>,
    << <<"a", "b", "\t", "x", "\n">>, <<"b", "a", "\t", "y", "\n">> >>,
    << <<"b", "a", "\t", "x", "\n">>, <<"a", "\t", "\n">>,
       <<"a", "b", "\t", "y", "\n">>, <<"\t", "z", "\n">>,
       <<"b", "a", "\t", "z", "\n">>, <<"a", "\t", "b", "\t", "z", "\n">>,
       <<"\n">> >>,
    << <<"b", "b", "b", "b", "\t", "x", "\n">>,
       <<"a", "b", "b", "b", "b", "\t", "y", " ", "\n">> >>,
    << <<"a", "\t", "x", "\n">>, <<"b", "b", "b", "b", "\t", "y">> >>
}

NameTables == {LoadCharacterMapping(f) : f \in CharacterFiles}

----------------------------------------------------------------------------
(* The resolver on its own: every table the loader can produce, every list  *)
(* of raw names up to the bounds.  A raw name is a line that is not blank   *)
(* (line 123).                                                              *)

NameAlphabet == {"a", "b"}
RawNames == {n \in Texts(NameAlphabet, MaxNameLen) : Strip(n) # <<>>}
NameLists == UNION {[1..k -> RawNames] : k \in 0..MaxNames}

Unused == "unused"

InitResolve ==
    /\ pc = "call"
    /\ character_mapping \in NameTables
    /\ names \in NameLists
    /\ character_names = <<>>
    /\ error = NoError
    /\ message = Unused /\ image = Unused /\ width = 0 /\ crop = Unused
    /\ scanned_title_raw = <<>> /\ script_name = <<>> /\ author = <<>>
    /\ json = <<>> /\ replies = <<>> /\ calls = Unused
    /\ pixel = Unused /\ gray_pixel = 0

MapNames ==
    /\ pc = "call"
    /\ LET r == MapScannedCharacterNames(character_mapping, names) IN
       /\ character_names' = r.value
       /\ error' = r.error
       /\ pc' = IF r.error = NoError THEN "returned" ELSE "raised"
    /\ UNCHANGED <<character_mapping, names, message, image, width, crop,
                   scanned_title_raw, script_name, author, json, replies,
                   calls, pixel, gray_pixel>>

NextResolve == MapNames

SpecResolve == InitResolve /\ [][NextResolve]_vars

----------------------------------------------------------------------------
(* remove_color on one pixel.  The image is a uint8 array in BGR order: the *)
(* channel differences of lines 35-37 are uint8 subtractions, which wrap    *)
(* modulo 256, and numpy.abs of an unsigned value is the value itself.      *)

\* the default of the threshold parameter
Threshold == 30

Uint8Sub(a, b) == (a - b) % 256

NonGreyMask(p) ==
    \/ Uint8Sub(p[1], p[2]) > Threshold
    \/ Uint8Sub(p[1], p[3]) > Threshold
    \/ Uint8Sub(p[2], p[3]) > Threshold

\* cv2.COLOR_BGR2GRAY: 0.114 B + 0.587 G + 0.299 R, rounded to nearest
Bgr2Gray(p) == (114 * p[1] + 587 * p[2] + 299 * p[3] + 500) \div 1000

RemoveColor(p) == IF NonGreyMask(p) THEN 255 ELSE Bgr2Gray(p)

\* channel values around the threshold, at both ends of the range and between
ChannelSamples == {0, 6, 30, 31, 100, 130, 131, 225, 226, 250, 255}

InitChroma ==
    /\ pc = "call"
    /\ pixel \in ChannelSamples \X ChannelSamples \X ChannelSamples
    /\ gray_pixel = 0
    /\ character_mapping = <<>> /\ names = <<>> /\ character_names = <<>>
    /\ error = NoError
    /\ message = Unused /\ image = Unused /\ width = 0 /\ crop = Unused
    /\ scanned_title_raw = <<>> /\ script_name = <<>> /\ author = <<>>
    /\ json = <<>> /\ replies = <<>> /\ calls = Unused

FilterPixel ==
    /\ pc = "call"
    /\ gray_pixel' = RemoveColor(pixel)
    /\ pc' = "returned"
    /\ UNCHANGED <<character_mapping, message, image, width, crop, names,
                   character_names, scanned_title_raw, script_name, author,
                   json, replies, error, calls, pixel>>

NextChroma == FilterPixel

SpecChroma == InitChroma /\ [][NextChroma]_vars

----------------------------------------------------------------------------
(* crop_to_character_names on a page of the given width and of the height   *)
(* normalize_height gives every page.                                       *)

A4_HEIGHT_PIXELS == 2970
A4_WIDTH_PIXELS == 2100
\* the narrowest page accepted (line 59)
MinPageWidth == 1500

\* int( ( width - A4_WIDTH_PIXELS ) * 0.5 ): the product is exact and int()
\* truncates toward zero
LeftMarginSize(w) ==
    LET d == w - A4_WIDTH_PIXELS
    IN IF d >= 0 THEN d \div 2 ELSE -((-d) \div 2)

\* a slice bound as numpy reads it on an axis of n entries: a negative bound
\* counts from the end, and every bound is clipped to the axis
SliceBound(i, n) ==
    IF i < 0 THEN (IF i + n < 0 THEN 0 ELSE i + n)
    ELSE (IF i > n THEN n ELSE i)

\* the entries lo:hi selects on an axis of n entries
Slice(lo, hi, n) ==
    LET a == SliceBound(lo, n)
        b == SliceBound(hi, n)
    IN [start |-> a, stop |-> b, size |-> IF b > a THEN b - a ELSE 0]

NoCrop == [x_min |-> 0, x_max |-> 0, y_min |-> 0, y_max |-> 0,
           columns |-> Slice(0, 0, 0), rows |-> Slice(0, 0, 0)]

\* the guard of line 59 (the faulty variant also refuses the threshold width)
TooNarrowInclusive(w) == w <= MinPageWidth
TooNarrow(w) == w < MinPageWidth

CropToCharacterNames(w) ==
    IF TooNarrow(w)
    THEN [error |-> Raised("RuntimeError", "narrow", <<>>), value |-> NoCrop]
    ELSE LET m == LeftMarginSize(w) IN
         [error |-> NoError,
          value |-> [x_min |-> 180 + m, x_max |-> 414 + m,
                     y_min |-> 140, y_max |-> 2925,
                     columns |-> Slice(180 + m, 414 + m, w),
                     rows |-> Slice(140, 2925, A4_HEIGHT_PIXELS)]]

\* the page widths explored
LowWidth == 1400
HighWidth == 2500

InitCrop ==
    /\ pc = "call"
    /\ width \in LowWidth..HighWidth
    /\ crop = NoCrop
    /\ error = NoError
    /\ character_mapping = <<>> /\ names = <<>> /\ character_names = <<>>
    /\ message = Unused /\ image = Unused
    /\ scanned_title_raw = <<>> /\ script_name = <<>> /\ author = <<>>
    /\ json = <<>> /\ replies = <<>> /\ calls = Unused
    /\ pixel = Unused /\ gray_pixel = 0

CropPage ==
    /\ pc = "call"
    /\ LET r == CropToCharacterNames(width) IN
       /\ crop' = r.value
       /\ error' = r.error
       /\ pc' = IF r.error = NoError THEN "returned" ELSE "raised"
    /\ UNCHANGED <<character_mapping, message, image, width, names,
                   character_names, scanned_title_raw, script_name, author,
                   json, replies, calls, pixel, gray_pixel>>

NextCrop == CropPage

SpecCrop == InitCrop /\ [][NextCrop]_vars

----------------------------------------------------------------------------
(* extract_script_meta_data, from the recognized title on (lines 145-152).  *)

\* the first place "by" starts at, or 0
RECURSIVE FindBy(_, _)
FindBy(s, i) ==
    IF i + 1 > Len(s) THEN 0
    ELSE IF s[i] = "b" /\ s[i + 1] = "y" THEN i ELSE FindBy(s, i + 1)

\* str.split( "by", 1 )
SplitBy(s) ==
    LET i == FindBy(s, 1)
    IN IF i = 0 THEN <<s>>
       ELSE <<SubSeq(s, 1, i - 1), SubSeq(s, i + 2, Len(s))>>

ParseTitle(raw) ==
    LET title_split == SplitBy(Strip(raw))
    IN IF Len(title_split) = 2
       THEN [script_name |-> Strip(title_split[1]), author |-> Strip(title_split[2])]
       ELSE [script_name |-> raw, author |-> <<>>]

\* longest recognized title explored
MaxTitleLen == 4
TitleAlphabet == {"T", "b", "y", " ", "\n"}

InitMeta ==
    /\ pc = "call"
    /\ scanned_title_raw \in Texts(TitleAlphabet, MaxTitleLen)
    /\ script_name = <<>> /\ author = <<>>
    /\ character_mapping = <<>> /\ names = <<>> /\ character_names = <<>>
    /\ error = NoError
    /\ message = Unused /\ image = Unused /\ width = 0 /\ crop = Unused
    /\ json = <<>> /\ replies = <<>> /\ calls = Unused
    /\ pixel = Unused /\ gray_pixel = 0

SplitTitle ==
    /\ pc = "call"
    /\ LET r == ParseTitle(scanned_title_raw) IN
       /\ script_name' = r.script_name
       /\ author' = r.author
    /\ pc' = "returned"
    /\ UNCHANGED <<character_mapping, message, image, width, crop, names,
                   character_names, scanned_title_raw, json, replies, error,
                   calls, pixel, gray_pixel>>

NextMeta == SplitTitle

SpecMeta == InitMeta /\ [][NextMeta]_vars

----------------------------------------------------------------------------
(* combine_to_json_string *)

JsonHead == <<"[", "{", "\"", "i", "d", "\"", ":", "\"", "_", "m", "e", "t", "a",
              "\"", ",", "\"", "a", "u", "t", "h", "o", "r", "\"", ":", "\"">>
JsonName == <<"\"", ",", "\"", "n", "a", "m", "e", "\"", ":", "\"">>
JsonMetaEnd == <<"\"", "}">>

\* json += f',"{name}"' for every character, in list order
RECURSIVE JsonCharacters(_)
JsonCharacters(characters) ==
    IF characters = <<>> THEN <<>>
    ELSE <<",", "\"">> \o Head(characters) \o <<"\"">>
            \o JsonCharacters(Tail(characters))

\* json.replace( "\n", "" ).replace( "\r", "" ) (the faulty variant keeps the
\* text as it is)
KeepLineBreaks(text) == text
RemoveLineBreaks(text) == Remove(Remove(text, "\n"), "\r")

CombineToJsonString(characters, name, by) ==
    RemoveLineBreaks(JsonHead \o by \o JsonName \o name \o JsonMetaEnd
                        \o JsonCharacters(characters) \o <<"]">>)

----------------------------------------------------------------------------
(* normalize_height: the new width is int( height * ( w / h ) ), computed   *)
(* in doubles.  Where h divides height * w the product can fall just under  *)
(* the quotient (2970 * (1499 / 2970) is 1498.9999999999998), so int()      *)
(* gives the quotient or one less; elsewhere it gives the floor.            *)

NormalizedWidths(w, h) ==
    LET q == (A4_HEIGHT_PIXELS * w) \div h
    IN IF (A4_HEIGHT_PIXELS * w) % h = 0 THEN {q, q - 1} ELSE {q}

----------------------------------------------------------------------------
(* The lines extract_character_names hands to the resolver (lines 120-123): *)
(* the recognized text stripped, split on line breaks, blank lines dropped. *)

NonBlankLines(raw) ==
    SelectSeq(Split(Strip(raw), "\n"), LAMBDA line : Strip(line) # <<>>)

----------------------------------------------------------------------------
(* get_referenced_image and get_referenced_image_or_parent.  An attachment  *)
(* is "none" (the message has none), "image", "other" (a content type that  *)
(* is no image) or "untyped" (content_type is None, on which startswith     *)
(* raises AttributeError).  The referenced message can be fetched or not.   *)

AttachmentKinds == {"none", "image", "other", "untyped"}

Messages ==
    {[attachment |-> a, reference |-> r, parent |-> "none"] :
        a \in AttachmentKinds, r \in {"none", "unfetchable"}}
    \cup {[attachment |-> a, reference |-> "fetched", parent |-> p] :
        a \in AttachmentKinds, p \in AttachmentKinds}

NoMessage == [attachment |-> "none", reference |-> "none", parent |-> "none"]

GetReferencedImage(attachment) ==
    IF attachment = "untyped"
    THEN [error |-> Raised("AttributeError", "content_type", <<>>), found |-> FALSE]
    ELSE [error |-> NoError, found |-> attachment = "image"]

GetReferencedImageOrParent(m) ==
    LET own == GetReferencedImage(m.attachment) IN
    IF own.error # NoError \/ own.found THEN own
    ELSE IF m.reference = "none" THEN [error |-> NoError, found |-> FALSE]
    ELSE IF m.reference = "unfetchable"
    THEN [error |-> Raised("NotFound", "fetch_message", <<>>), found |-> FALSE]
    ELSE GetReferencedImage(m.parent)

----------------------------------------------------------------------------
(* The bot: load_character_mapping at startup, then process_json_request    *)
(* for one command after the other.                                         *)

\* longest text recognized in the name column
MaxOcrNamesLen == 3
OcrNameTexts ==
    Texts({"a", "b", "\n"}, MaxOcrNamesLen)
    \cup {<<"a", "\n", " ", "\n", "b", "b", "b", "\n">>,
          <<"a", "b", "\n", "\n", "b", "a", "\n">>}

\* texts recognized in the title band: nothing, a title with and without an
\* author, with line breaks and a carriage return inside, and a bare "by"
OcrTitleTexts ==
    {<<>>,
     <<"T", " ", "b", "y", " ", "J", "\n">>,
     <<"T", "\n">>,
     <<"T", "\n", "B", "\n">>,
     <<"T", "b", "y", "\n", "J", "\r", "K">>,
     <<" ", "b", "y", "\n">>}

\* sizes ( w, h ) of the images fetched
ImageSizes == {<<1, 3000>>, <<1499, 2970>>, <<1500, 2970>>, <<800, 1485>>,
               <<2100, 2970>>, <<1050, 1485>>}

NoImage == [decoded |-> FALSE, w |-> 0, h |-> 0]

Steps == {"fetch", "normalize", "crop", "filter", "ocr_names", "resolve", "ocr_title"}
NoCalls == [s \in Steps |-> 0]
Called(s) == [calls EXCEPT ![s] = @ + 1]

UsageReply == [kind |-> "Please attach a script image.", heading |-> <<>>, json |-> <<>>]
FailureReply == [kind |-> "Something went wrong.", heading |-> <<>>, json |-> <<>>]

\* reply_body of lines 220-226, without the fence around the document
DocumentReply(name, by, document) ==
    [kind |-> "document",
     heading |-> IF Len(name) > 0
                 THEN IF Len(by) > 0
                      THEN name \o <<" ", "b", "y", " ">> \o by \o <<"\n">>
                      ELSE name \o <<"\n">>
                 ELSE <<>>,
     json |-> document]

chromaVars == <<pixel, gray_pixel>>
requestVars == <<message, image, width, crop, names, character_names,
                 scanned_title_raw, script_name, author, json, replies,
                 error, calls>>


Init ==
    /\ pc = "start"
    /\ character_mapping = <<>>
    /\ message = NoMessage /\ image = NoImage /\ width = 0 /\ crop = NoCrop
    /\ names = <<>> /\ character_names = <<>> /\ scanned_title_raw = <<>>
    /\ script_name = <<>> /\ author = <<>> /\ json = <<>> /\ replies = <<>>
    /\ error = NoError /\ calls = NoCalls
    /\ pixel = Unused /\ gray_pixel = 0

\* lines 234-238: the table is loaded, or the process exits
LoadMapping ==
    /\ pc = "start"
    /\ \/ \E f \in CharacterFiles :
            /\ character_mapping' = LoadCharacterMapping(f)
            /\ pc' = "idle"
       \/ /\ pc' = "exited"
          /\ UNCHANGED character_mapping
    /\ UNCHANGED <<requestVars, chromaVars>>

\* line 247: a !json command arrives
Command ==
    /\ pc = "idle"
    /\ message' \in Messages
    /\ pc' = "lookup"
    /\ UNCHANGED <<character_mapping, image, width, crop, names, character_names,
                   scanned_title_raw, script_name, author, json, replies,
                   error, calls, chromaVars>>

\* lines 205-209: an exception of the lookup leaves the handler
Lookup ==
    /\ pc = "lookup"
    /\ LET r == GetReferencedImageOrParent(message) IN
       IF r.error # NoError
       THEN /\ error' = r.error /\ pc' = "done" /\ UNCHANGED replies
       ELSE IF ~r.found
       THEN /\ replies' = Append(replies, UsageReply) /\ pc' = "done"
            /\ UNCHANGED error
       ELSE /\ pc' = "fetch" /\ UNCHANGED <<error, replies>>
    /\ UNCHANGED <<character_mapping, message, image, width, crop, names,
                   character_names, scanned_title_raw, script_name, author,
                   json, calls, chromaVars>>

\* lines 211-216: the download raises, or the bytes decode to an image or to
\* None
Fetch ==
    /\ pc = "fetch"
    /\ calls' = Called("fetch")
    /\ \/ /\ error' = Raised("Exception", "fetch", <<>>)
          /\ replies' = Append(replies, FailureReply)
          /\ pc' = "done"
          /\ UNCHANGED image
       \/ /\ image' \in {NoImage} \cup
                        {[decoded |-> TRUE, w |-> d[1], h |-> d[2]] : d \in ImageSizes}
          /\ pc' = "normalize"
          /\ UNCHANGED <<error, replies>>
    /\ UNCHANGED <<character_mapping, message, width, crop, names, character_names,
                   scanned_title_raw, script_name, author, json, chromaVars>>

\* line 169: None has no shape; cv2.resize refuses a width of 0
Normalize ==
    /\ pc = "normalize"
    /\ calls' = Called("normalize")
    /\ IF ~image.decoded
       THEN /\ error' = Raised("AttributeError", "shape", <<>>)
            /\ pc' = "except" /\ UNCHANGED width
       ELSE \E w_norm \in NormalizedWidths(image.w, image.h) :
            IF w_norm = 0
            THEN /\ error' = Raised("cv2.error", "resize", <<>>)
                 /\ pc' = "except" /\ UNCHANGED width
            ELSE /\ width' = w_norm /\ pc' = "crop" /\ UNCHANGED error
    /\ UNCHANGED <<character_mapping, message, image, crop, names, character_names,
                   scanned_title_raw, script_name, author, json, replies,
                   chromaVars>>

\* line 100
Crop ==
    /\ pc = "crop"
    /\ calls' = Called("crop")
    /\ LET r == CropToCharacterNames(width) IN
       /\ crop' = r.value
       /\ error' = r.error
       /\ pc' = IF r.error = NoError THEN "filter" ELSE "except"
    /\ UNCHANGED <<character_mapping, message, image, width, names, character_names,
                   scanned_title_raw, script_name, author, json, replies,
                   chromaVars>>

\* lines 103-107: cv2.cvtColor refuses an empty image, and the conversion of
\* line 107 is given the one-channel image remove_color returns, which
\* OpenCV builds may refuse
Filter ==
    /\ pc = "filter"
    /\ calls' = Called("filter")
    /\ \E accepted \in (IF crop.columns.size = 0 THEN {FALSE} ELSE BOOLEAN) :
         IF accepted
         THEN /\ pc' = "ocr_names" /\ UNCHANGED error
         ELSE /\ error' = Raised("cv2.error", "cvtColor", <<>>) /\ pc' = "except"
    /\ UNCHANGED <<character_mapping, message, image, width, crop, names,
                   character_names, scanned_title_raw, script_name, author,
                   json, replies, chromaVars>>

\* lines 109-123: the recognizer raises or returns text
RecognizeNames ==
    /\ pc = "ocr_names"
    /\ calls' = Called("ocr_names")
    /\ \/ /\ \E type \in {"RuntimeError", "OSError"} :
               error' = Raised(type, "ocr_names", <<>>)
          /\ pc' = "except"
          /\ UNCHANGED names
       \/ /\ \E raw \in OcrNameTexts : names' = NonBlankLines(raw)
          /\ pc' = "resolve"
          /\ UNCHANGED error
    /\ UNCHANGED <<character_mapping, message, image, width, crop, character_names,
                   scanned_title_raw, script_name, author, json, replies,
                   chromaVars>>

\* line 125
ResolveNames ==
    /\ pc = "resolve"
    /\ calls' = Called("resolve")
    /\ LET r == MapScannedCharacterNames(character_mapping, names) IN
       /\ character_names' = r.value
       /\ error' = r.error
       /\ pc' = IF r.error = NoError THEN "meta" ELSE "except"
    /\ UNCHANGED <<character_mapping, message, image, width, crop, names,
                   scanned_title_raw, script_name, author, json, replies,
                   chromaVars>>

\* lines 171-173: the title is recognized and split, the document assembled
ExtractMetaAndCombine ==
    /\ pc = "meta"
    /\ calls' = Called("ocr_title")
    /\ \/ /\ \E type \in {"RuntimeError", "OSError"} :
               error' = Raised(type, "ocr_title", <<>>)
          /\ pc' = "except"
          /\ UNCHANGED <<scanned_title_raw, script_name, author, json>>
       \/ /\ \E raw \in OcrTitleTexts :
               LET r == ParseTitle(raw) IN
               /\ scanned_title_raw' = raw
               /\ script_name' = r.script_name
               /\ author' = r.author
               /\ json' = CombineToJsonString(character_names, r.script_name, r.author)
          /\ pc' = "reply"
          /\ UNCHANGED error
    /\ UNCHANGED <<character_mapping, message, image, width, crop, names,
                   character_names, replies, chromaVars>>

\* lines 220-227
Reply ==
    /\ pc = "reply"
    /\ replies' = Append(replies, DocumentReply(script_name, author, json))
    /\ pc' = "done"
    /\ UNCHANGED <<character_mapping, message, image, width, crop, names,
                   character_names, scanned_title_raw, script_name, author,
                   json, error, calls, chromaVars>>

\* lines 228-230
Except ==
    /\ pc = "except"
    /\ replies' = Append(replies, FailureReply)
    /\ pc' = "done"
    /\ UNCHANGED <<character_mapping, message, image, width, crop, names,
                   character_names, scanned_title_raw, script_name, author,
                   json, error, calls, chromaVars>>

\* the handler has returned; the bot waits for the next command
Finish ==
    /\ pc = "done"
    /\ pc' = "idle"
    /\ message' = NoMessage /\ image' = NoImage /\ width' = 0 /\ crop' = NoCrop
    /\ names' = <<>> /\ character_names' = <<>> /\ scanned_title_raw' = <<>>
    /\ script_name' = <<>> /\ author' = <<>> /\ json' = <<>> /\ replies' = <<>>
    /\ error' = NoError /\ calls' = NoCalls
    /\ UNCHANGED <<character_mapping, chromaVars>>

Next ==
    \/ LoadMapping
    \/ Command
    \/ Lookup
    \/ Fetch
    \/ Normalize
    \/ Crop
    \/ Filter
    \/ RecognizeNames
    \/ ResolveNames
    \/ ExtractMetaAndCombine
    \/ Reply
    \/ Except
    \/ Finish

Spec == Init /\ [][Next]_vars

----------------------------------------------------------------------------
(* Properties of the resolver (SpecResolve).                                *)

Keys(mapping) == {mapping[i][1] : i \in 1..Len(mapping)}
Values(mapping) == {mapping[i][2] : i \in 1..Len(mapping)}

\* the least distance from a name to a key of a table that has keys
MinDistance(mapping, name) ==
    LET ds == {Levenshtein(name, k) : k \in Keys(mapping)}
    IN CHOOSE d \in ds : \A e \in ds : d <= e

\* the first key, in iteration order, at the least distance
FirstClosest(mapping, name) ==
    LET d == MinDistance(mapping, name)
        at == {i \in 1..Len(mapping) : Levenshtein(name, mapping[i][1]) = d}
    IN CHOOSE i \in at : \A j \in at : i <= j

\* neither a key nor within distance 3 of one
Unresolvable(mapping, name) ==
    /\ name \notin Keys(mapping)
    /\ \A k \in Keys(mapping) : Levenshtein(name, k) > 3

\* C1: name resolution is all-or-nothing for every table, the empty one
\* included: if some name is neither a key nor within distance 3 of a key,
\* the call fails with the name-resolution error carrying the first such
\* name and returns no list; otherwise it returns a complete list.
C1_AllOrNothing ==
    pc \in {"returned", "raised"} =>
        LET bad == {i \in 1..Len(names) : Unresolvable(character_mapping, names[i])}
        IN IF bad # {}
           THEN /\ pc = "raised"
                /\ error = Raised("RuntimeError", "no match",
                                  names[CHOOSE i \in bad : \A j \in bad : i <= j])
                /\ character_names = <<>>
           ELSE /\ pc = "returned"
                /\ Len(character_names) = Len(names)

\* C2: the per-name rule.  In a returned list the id of a name that is a key
\* is the table's value for it; the id of any other name is the value of the
\* first key, in iteration order, at the least distance, and that distance
\* is at most 3.  A name the call rejects is neither a key nor within
\* distance 3 of one.
C2_PerNameRule ==
    /\ pc = "returned" =>
         /\ Len(character_names) = Len(names)
         /\ \A i \in 1..Len(names) :
              IF names[i] \in Keys(character_mapping)
              THEN \E j \in 1..Len(character_mapping) :
                      /\ character_mapping[j][1] = names[i]
                      /\ character_names[i] = character_mapping[j][2]
              ELSE /\ character_mapping # <<>>
                   /\ MinDistance(character_mapping, names[i]) <= 3
                   /\ character_names[i] =
                        character_mapping[FirstClosest(character_mapping, names[i])][2]
    /\ (pc = "raised" /\ error.type = "RuntimeError") =>
         Unresolvable(character_mapping, error.name)

\* a returned list with a name that is a key, and a name that is no key and
\* has two keys of different ids at the least distance, the first of them
\* not the only one within distance 3
C2_Witness ==
    /\ pc = "returned"
    /\ \E i \in 1..Len(names) : names[i] \in Keys(character_mapping)
    /\ \E i \in 1..Len(names) :
         /\ names[i] \notin Keys(character_mapping)
         /\ \E a, b \in 1..Len(character_mapping) :
              /\ a < b
              /\ character_mapping[a][2] # character_mapping[b][2]
              /\ Levenshtein(names[i], character_mapping[a][1])
                   = MinDistance(character_mapping, names[i])
              /\ Levenshtein(names[i], character_mapping[b][1])
                   = MinDistance(character_mapping, names[i])

----------------------------------------------------------------------------
(* Properties of the chroma filter (SpecChroma).                            *)

AbsDiff(a, b) == IF a >= b THEN a - b ELSE b - a

\* C4: a pixel whose three absolute channel differences are all at most 30
\* comes out as its luma-weighted gray value, whichever channel of a pair is
\* the larger; any other pixel comes out white.
C4_ChromaFilter ==
    pc = "returned" =>
        gray_pixel =
            IF /\ AbsDiff(pixel[1], pixel[2]) <= 30
               /\ AbsDiff(pixel[1], pixel[3]) <= 30
               /\ AbsDiff(pixel[2], pixel[3]) <= 30
            THEN Bgr2Gray(pixel)
            ELSE 255

----------------------------------------------------------------------------
(* Properties of the region extractor (SpecCrop).                           *)

\* half of d rounded to the nearest integer, a tie going to the even
\* neighbour, away from zero, or up
HalfRoundedEven(d) ==
    LET k == d \div 2
    IN IF d % 2 = 0 THEN k ELSE IF k % 2 = 0 THEN k ELSE k + 1
HalfRoundedAway(d) ==
    LET k == d \div 2
    IN IF d % 2 = 0 THEN k ELSE IF d > 0 THEN k + 1 ELSE k
HalfRoundedUp(d) == (d + 1) \div 2

\* C6: for every accepted width w the margin is round((w - 2100) / 2), the
\* columns cropped are [180 + margin, 414 + margin), 234 of them, and the
\* margin of width 2400 is 150.
C6_MarginCorrection ==
    pc = "returned" =>
        \E margin \in {HalfRoundedEven(width - 2100), HalfRoundedAway(width - 2100),
                       HalfRoundedUp(width - 2100)} :
            /\ crop.x_min = 180 + margin
            /\ crop.x_max = 414 + margin
            /\ crop.columns.start = 180 + margin
            /\ crop.columns.stop = 414 + margin
            /\ crop.columns.size = 234
            /\ (width = 2400 => margin = 150)

\* C10: for every accepted width the bounds lie inside the page, the left
\* and upper bound before the right and lower one, and the region cropped
\* is not empty.
C10_CropInsidePage ==
    pc = "returned" =>
        /\ 0 <= crop.x_min /\ crop.x_min < crop.x_max /\ crop.x_max <= width
        /\ 0 <= crop.y_min /\ crop.y_min < crop.y_max /\ crop.y_max <= 2970
        /\ crop.columns.size > 0
        /\ crop.rows.size > 0

----------------------------------------------------------------------------
(* Properties of the metadata parser (SpecMeta).                            *)

\* C5: the trimmed title is split once on "by"; two parts give the trimmed
\* first part as script name and the trimmed second as author; otherwise
\* the script name is the whole trimmed title and the author is empty.
C5_MetadataSplit ==
    pc = "returned" =>
        LET trimmed == Strip(scanned_title_raw)
            has_by == \E i \in 1..(Len(trimmed) - 1) :
                          trimmed[i] = "b" /\ trimmed[i + 1] = "y"
        IN IF has_by
           THEN \E i \in 1..(Len(trimmed) - 1) :
                   /\ trimmed[i] = "b" /\ trimmed[i + 1] = "y"
                   /\ \A j \in 1..(i - 1) : ~(trimmed[j] = "b" /\ trimmed[j + 1] = "y")
                   /\ script_name = Strip(SubSeq(trimmed, 1, i - 1))
                   /\ author = Strip(SubSeq(trimmed, i + 2, Len(trimmed)))
           ELSE /\ script_name = trimmed
                /\ author = <<>>

----------------------------------------------------------------------------
(* Properties of the request pipeline (Spec).                               *)

\* the resolver ran in this request and did not raise
ResolverReturned ==
    /\ calls["resolve"] = 1
    /\ error.reason \notin {"no match", "min() arg is an empty sequence"}

\* script_image_to_json returned in this request
PipelineReturned ==
    \/ pc = "reply"
    \/ pc = "done" /\ Len(replies) = 1 /\ replies[1].kind = "document"

\* the id the rule of C2 gives a name the table can resolve
RuleId(mapping, name) ==
    IF name \in Keys(mapping)
    THEN mapping[CHOOSE j \in 1..Len(mapping) : mapping[j][1] = name][2]
    ELSE mapping[FirstClosest(mapping, name)][2]

\* the place of the first c in a text, or 0
FirstIndex(text, c) ==
    IF \E i \in 1..Len(text) : text[i] = c
    THEN CHOOSE i \in 1..Len(text) :
            text[i] = c /\ \A j \in 1..(i - 1) : text[j] # c
    ELSE 0

\* the document read back: the text of the first object, and the elements
\* after it with their quotes taken off
MetaObjectOf(document) == SubSeq(document, 2, FirstIndex(document, "}"))
RosterOf(document) ==
    LET rest == SubSeq(document, FirstIndex(document, "}") + 1, Len(document) - 1)
        parts == IF rest = <<>> THEN <<>> ELSE Tail(Split(rest, ","))
    IN [i \in 1..Len(parts) |-> SubSeq(parts[i], 2, Len(parts[i]) - 1)]
WellQuoted(document) ==
    LET rest == SubSeq(document, FirstIndex(document, "}") + 1, Len(document) - 1)
        parts == IF rest = <<>> THEN <<>> ELSE Split(rest, ",")
    IN /\ rest # <<>> => parts[1] = <<>>
       /\ \A i \in 2..Len(parts) :
            /\ Len(parts[i]) >= 2
            /\ parts[i][1] = "\"" /\ parts[i][Len(parts[i])] = "\""

\* C3: whenever the resolver returns, its list has one element per
\* recognized name, the i-th being the resolution of the i-th name; and the
\* document lists these ids in that order.
C3_OrderPreserved ==
    /\ ResolverReturned =>
         /\ Len(character_names) = Len(names)
         /\ \A i \in 1..Len(names) :
              character_names[i] = RuleId(character_mapping, names[i])
    /\ PipelineReturned =>
         /\ ResolverReturned
         /\ RosterOf(json) = character_names
         /\ Len(RosterOf(json)) = Len(names)

\* a document was sent whose roster holds two different ids, the second
\* name resolving to another id than the first
C3_Witness ==
    /\ pc = "done"
    /\ Len(replies) = 1 /\ replies[1].kind = "document"
    /\ Len(names) >= 2
    /\ RuleId(character_mapping, names[1]) # RuleId(character_mapping, names[2])
    /\ RosterOf(replies[1].json)[1] # RosterOf(replies[1].json)[2]

\* C7: every request ends with exactly one reply; if a step failed the reply
\* is the generic failure message and carries no document; and no step ran
\* twice in the request.
C7_SingleReply ==
    pc = "done" =>
        /\ Len(replies) = 1
        /\ error # NoError => replies[1] = FailureReply
        /\ \A s \in Steps : calls[s] <= 1

C9_LayoutGuard ==
    /\ error.reason = "narrow" =>
         /\ width < 1500
         /\ pc \in {"except", "done"}
         /\ calls["filter"] = 0 /\ calls["ocr_names"] = 0
         /\ calls["resolve"] = 0 /\ calls["ocr_title"] = 0
    /\ (calls["crop"] = 1 /\ width < 1500) => error.reason = "narrow"
    /\ (calls["crop"] = 1 /\ width >= 1500) => error.reason # "narrow"
    /\ (calls["ocr_names"] > 0 \/ calls["ocr_title"] > 0 \/ calls["resolve"] > 0) =>
         width >= 1500

\* a page one pixel too narrow was refused at the crop and the user told so
C9_WitnessNarrow ==
    /\ pc = "done"
    /\ error.reason = "narrow"
    /\ width = 1499
    /\ replies = <<FailureReply>>

====
